---- MODULE Spec2Model ----
(***************************************************************************)
(* A model of heic2jpg.py: the size-targeted JPEG encoder                  *)
(* (compress_to_target), the output namer (safe_out_path), the per-file    *)
(* conversion (convert_heic_file) and the batch driver (convert_dir, main).*)
(*                                                                         *)
(* Three specifications share the module:                                  *)
(*   SpecEnc   one call of compress_to_target, one encode attempt a step;  *)
(*   Spec      one run of main, one convert_heic_file call a step;         *)
(*   SpecPool  the conversion tasks of one input set run by a worker pool. *)
(***************************************************************************)
EXTENDS Integers, Sequences, FiniteSets, TLC

VARIABLES
    \* ---- compress_to_target (SpecEnc) ----
    start_max_side,   \* the argument: None or an integer (an Option, see Some)
    initial_quality,  \* the argument initial_quality
    target_bytes,     \* the argument target_bytes (the budget)
    img,              \* the codec on this image: <<side, q>> |-> len(encode)
    side_steps,       \* the resolution ladder built at lines 79-87
    si, qi,           \* position of the two for loops (1-based)
    data,             \* the local `data`: None while unbound, else Some(len)
    attempts,         \* history: the encode calls made, in order
    epc,              \* "loop" | "returned" | "raised"
    \* ---- main / convert_dir / convert_heic_file (Spec, SpecPool) ----
    max_side,         \* args.max_side
    argv,             \* args.paths
    corrupt,          \* the .heic files whose decoding fails
    reduced,          \* what D/Reduced is: "absent" | "dir" | "file"
    out,              \* D/Reduced: output file name |-> content
    out0,             \* D/Reduced as it was when the run started
    pc,               \* position of main
    files, dirs,      \* main's lists `files` and `dirs`
    fi, di,           \* index of the next element of files / dirs
    entries,          \* convert_dir: the entries iterdir() has still to yield
    count,            \* convert_dir's local count
    total,            \* main's local total
    printed,          \* the lines printed so far
    calls,            \* history: one record per convert_heic_file call
    \* ---- worker pool (SpecPool) ----
    poolSize,         \* number of workers
    queue,            \* the submitted tasks, in submission order
    task              \* task index |-> its position, its out_path, its result

encVars == <<start_max_side, initial_quality, target_bytes, img, side_steps,
             si, qi, data, attempts, epc>>
runVars == <<max_side, argv, corrupt, reduced, out, out0, pc, files, dirs,
             fi, di, entries, count, total, printed, calls>>
poolVars == <<poolSize, queue, task>>
vars == <<encVars, runVars, poolVars>>

-----------------------------------------------------------------------------
(* Python values *)

\* An `int | None`: None is the empty sequence, the integer n is <<n>>.
None == <<>>
Some(n) == <<n>>

\* Python truthiness of an `int | None`: None and 0 are falsy.
Truthy(o) == o # None /\ o[1] # 0

\* int(s * 0.9) for s >= 0: the float product truncated.
Int09(s) == (s * 9) \div 10

-----------------------------------------------------------------------------
(* compress_to_target *)

\* min_max_side as convert_heic_file passes it
MinMaxSide == 1200
\* min_quality as convert_heic_file passes it
MinQuality == 40
\* the step of the quality ladder
QualityStep == 5

\* Bounds of the encoder's inputs
MaxSize == 3

RECURSIVE Ladder(_, _)
\* while s >= min_max_side: side_steps.append(s); s = int(s * 0.9)
Ladder(s, min_max_side) ==
    IF s >= min_max_side
      THEN <<Some(s)>> \o Ladder(Int09(s), min_max_side)
      ELSE <<>>

\* lines 79-87: the ladder of resolution caps, [None] when resizing is off
SideSteps(sms, min_max_side) ==
    IF Truthy(sms) THEN Ladder(sms[1], min_max_side) ELSE <<None>>

RECURSIVE Range(_, _, _)
\* list(range(start, stop, -step)) for step > 0
Range(start, stop, step) ==
    IF start > stop THEN <<start>> \o Range(start - step, stop, step) ELSE <<>>

\* Faulty variant: the range stops one step early: range(initial_quality, min_quality, -5)
QualityStepsShort(iq, mq) == Range(iq, mq, QualityStep)
\* line 90: list(range(initial_quality, min_quality - 1, -5))
QualitySteps(iq, mq) == Range(iq, mq - 1, QualityStep)

quality_steps == QualitySteps(initial_quality, MinQuality)

\* line 185: None if args.max_side and args.max_side <= 0 else args.max_side
StartMaxSide(ms) == IF ms # 0 /\ ms <= 0 THEN None ELSE Some(ms)

\* Inputs of the encoder: --max-side values (off, off, a cap under
\* min_max_side, the floor itself, a two-step ladder), initial qualities one
\* and two steps above min_quality, sizes and budgets in 1..MaxSize.
MaxSideArgs == {-1, 0, 1000, 1200, 1400}
InitialQualities == {45, 50}
Sizes == 1..MaxSize

\* the qualities a ladder from iq down to MinQuality encodes at
Qualities(iq) == {q \in MinQuality..iq : (iq - q) % QualityStep = 0}
\* the caps of a ladder
Caps(ss) == {ss[i] : i \in 1..Len(ss)}

\* Faulty variant: the budget test is strict
FitsStrict(len, budget) == len < budget
\* line 100: len(data) <= target_bytes
Fits(len, budget) == len <= budget

\* the values the run of main takes while only the encoder is exercised
RunIdle ==
    /\ max_side = 0 /\ argv = <<>> /\ corrupt = {} /\ reduced = "absent"
    /\ out = <<>> /\ out0 = <<>> /\ pc = "idle" /\ files = <<>> /\ dirs = <<>>
    /\ fi = 1 /\ di = 1 /\ entries = {} /\ count = 0 /\ total = 0
    /\ printed = <<>> /\ calls = <<>>
PoolIdle ==
    /\ poolSize = 0 /\ queue = <<>> /\ task = <<>>

\* compress_to_target entered, ladders built (lines 79-90), loops about to start
InitEnc ==
    /\ \E ms \in MaxSideArgs : start_max_side = StartMaxSide(ms)
    /\ initial_quality \in InitialQualities
    /\ target_bytes \in Sizes
    /\ side_steps = SideSteps(start_max_side, MinMaxSide)
    /\ img \in [Caps(side_steps) \X Qualities(initial_quality) -> Sizes]
    /\ si = 1 /\ qi = 1
    /\ data = None
    /\ attempts = <<>>
    /\ epc = "loop"
    /\ RunIdle /\ PoolIdle

\* lines 92-101: one pass of the inner loop body
EncodeAttempt ==
    /\ epc = "loop"
    /\ si <= Len(side_steps)
    /\ LET side == side_steps[si]
           q == quality_steps[qi]
           len == img[<<side, q>>]
       IN  /\ data' = Some(len)
           /\ attempts' = Append(attempts, [side |-> side, q |-> q, len |-> len])
           /\ IF Fits(len, target_bytes)
                THEN epc' = "returned" /\ UNCHANGED <<si, qi>>
                ELSE /\ epc' = "loop"
                     /\ IF qi < Len(quality_steps)
                          THEN qi' = qi + 1 /\ si' = si
                          ELSE qi' = 1 /\ si' = si + 1
    /\ UNCHANGED <<start_max_side, initial_quality, target_bytes, img, side_steps>>
    /\ UNCHANGED <<runVars, poolVars>>

\* line 104: `return data` after the loops; `data` is unbound when the outer
\* loop never ran, and reading it raises UnboundLocalError
ReturnLast ==
    /\ epc = "loop"
    /\ si > Len(side_steps)
    /\ epc' = IF data = None THEN "raised" ELSE "returned"
    /\ UNCHANGED <<start_max_side, initial_quality, target_bytes, img, side_steps,
                   si, qi, data, attempts>>
    /\ UNCHANGED <<runVars, poolVars>>

NextEnc == EncodeAttempt \/ ReturnLast

SpecEnc == InitEnc /\ [][NextEnc]_vars

-----------------------------------------------------------------------------
(* The file system: one directory D, its entries, and D/Reduced *)

\* A path is its stem and its suffix without the dot (Path.stem, Path.suffix);
\* a stem is a sequence of tokens so that "a" + "_1" and the stem "a_1" meet.
PathA == [stem |-> <<"a">>, ext |-> "heic"]         \* D/a.heic
PathA1 == [stem |-> <<"a", "_1">>, ext |-> "HEIC"]  \* D/a_1.HEIC
PathN == [stem |-> <<"notes">>, ext |-> "txt"]      \* D/notes.txt
PathGone == [stem |-> <<"gone">>, ext |-> "heic"]   \* D/gone.heic, not there
PathD == [stem |-> <<"D">>, ext |-> ""]             \* the directory D
PathReduced == [stem |-> <<"Reduced">>, ext |-> ""] \* D/Reduced

HeicFiles == {PathA, PathA1}
DirFiles == HeicFiles \cup {PathN}
ArgPaths == DirFiles \cup {PathGone, PathD}

\* Bounds of a run of main
MaxArgs == 2

\* str.lower() on the suffixes that occur
Lower(ext) == IF ext = "HEIC" THEN "heic" ELSE ext

IsFile(p, red) == p \in DirFiles \/ (p = PathReduced /\ red = "file")
IsDir(p, red) == p = PathD \/ (p = PathReduced /\ red = "dir")
Exists(p, red) == IsFile(p, red) \/ IsDir(p, red)

\* dir_path.iterdir() on D
IterDir(red) == DirFiles \cup (IF red = "absent" THEN {} ELSE {PathReduced})

\* "_" + str(i)
SuffixTok(i) ==
    <<"_1", "_2", "_3", "_4", "_5", "_6", "_7", "_8", "_9", "_10", "_11", "_12">>[i]

\* the name of out_dir / f"{base_name}.jpg" (i = 0) or f"{base_name}_{i}.jpg"
JpgName(base_name, i) ==
    IF i = 0 THEN base_name ELSE Append(base_name, SuffixTok(i))

RECURSIVE Probe(_, _, _)
\* lines 20-25: the first i >= 1 whose candidate does not exist
Probe(existing, base_name, i) ==
    IF JpgName(base_name, i) \notin existing
      THEN JpgName(base_name, i)
      ELSE Probe(existing, base_name, i + 1)

\* Faulty variant: no existence check: always the unadorned name
SafeOutPathNoProbe(existing, base_name) == JpgName(base_name, 0)
\* Faulty variant: the unadorned name is checked, the suffixed one is not
SafeOutPathOneProbe(existing, base_name) ==
    IF JpgName(base_name, 0) \notin existing
      THEN JpgName(base_name, 0)
      ELSE JpgName(base_name, 1)
\* safe_out_path(out_dir, base_name), `existing` the names present in out_dir
SafeOutPath(existing, base_name) ==
    IF JpgName(base_name, 0) \notin existing
      THEN JpgName(base_name, 0)
      ELSE Probe(existing, base_name, 1)

\* What a file of D/Reduced holds: what was there before the run, the JPEG
\* written by the n-th convert_heic_file call, or the torn output of a
\* write_bytes that failed after creating the file.
Old == <<"old", 0>>
Jpeg(n) == <<"jpeg", n>>
Torn(n) == <<"torn", n>>

\* f with name n (re)bound to c
Put(f, n, c) == [m \in DOMAIN f \cup {n} |-> IF m = n THEN c ELSE f[m]]

\* Faulty variant: the output is opened for exclusive creation: an existing path
\* makes the write fail
WriteBytesExclusive(o, path, n, fault) ==
    IF path \in DOMAIN o THEN [out |-> o, ok |-> FALSE]
    ELSE IF fault = "write" THEN [out |-> Put(o, path, Torn(n)), ok |-> FALSE]
    ELSE [out |-> Put(o, path, Jpeg(n)), ok |-> TRUE]
\* line 138: out_path.write_bytes(jpeg_bytes) by the n-th call: the file is
\* created or truncated, then written
WriteBytes(o, path, n, fault) ==
    IF fault = "write" THEN [out |-> Put(o, path, Torn(n)), ok |-> FALSE]
    ELSE [out |-> Put(o, path, Jpeg(n)), ok |-> TRUE]

\* What can go wrong inside the try block besides a corrupt source and an
\* empty ladder: the codec fails to encode (nothing is written), write_bytes
\* fails after creating the file (a torn file is left).
Faults == {"none", "encode", "write"}

\* compress_to_target ends in UnboundLocalError when the outer loop never runs
CompressRaises(sms) == SideSteps(sms, MinMaxSide) = <<>>

\* convert_heic_file(file_path, ...) as the n-th call, in the file system
\* (red, o), with `fault` striking: the result ("ok" for True, "failed" for
\* False, "raised" when an exception leaves the call), the file system after
\* it, the lines printed, and the path safe_out_path returned.
ConvertHeicFile(p, n, red, o, bad, sms, fault) ==
    LET base == [src |-> p, before |-> o, alloc |-> None,
                 red |-> red, out |-> o, lines |-> <<>>]
        out_path == SafeOutPath(DOMAIN o, p.stem)
        tried == [base EXCEPT !.alloc = Some(out_path), !.red = "dir"]
        w == WriteBytes(o, out_path, n, fault)
        cause == IF p \in bad THEN "decode"
                 ELSE IF CompressRaises(sms) THEN "unbound data"
                 ELSE IF fault = "encode" THEN "encode"
                 ELSE IF ~w.ok THEN "write"
                 ELSE "none"
        Failed(r) == [r EXCEPT !.lines = <<[msg |-> "Failed", path |-> p, why |-> cause]>>]
    IN  IF ~IsFile(p, red) \/ Lower(p.ext) # "heic"
          THEN base @@ [result |-> "failed"]                               \* line 115
        ELSE IF red = "file"
          THEN base @@ [result |-> "raised"]                               \* line 118
        ELSE IF cause \in {"decode", "unbound data", "encode"}
          THEN Failed(tried) @@ [result |-> "failed"]                      \* line 145
        ELSE IF cause = "write"
          THEN Failed([tried EXCEPT !.out = w.out]) @@ [result |-> "failed"]
        ELSE [tried EXCEPT !.out = w.out,
                           !.lines = <<[msg |-> "Converted", path |-> p, why |-> "none"]>>]
             @@ [result |-> "ok"]                                          \* line 141

-----------------------------------------------------------------------------
(* main and convert_dir *)

\* --max-side: a cap under min_max_side, and the default
MaxSideRun == {1000, 3000}

RECURSIVE Filter(_, _, _)
\* lines 192-194: [p for p in args.paths if p.is_file()], ... if p.is_dir()],
\* ... if not p.exists()]
Filter(paths, red, kind) ==
    IF paths = <<>> THEN <<>>
    ELSE LET p == Head(paths)
             keep == CASE kind = "file" -> IsFile(p, red)
                       [] kind = "dir" -> IsDir(p, red)
                       [] OTHER -> ~Exists(p, red)
         IN  (IF keep THEN <<p>> ELSE <<>>) \o Filter(Tail(paths), red, kind)

ArgLists == UNION {[1..n -> ArgPaths] : n \in 0..MaxArgs}

EncIdle ==
    /\ initial_quality = 85 /\ target_bytes = 0 /\ img = <<>>
    /\ side_steps = <<>> /\ si = 1 /\ qi = 1 /\ data = None
    /\ attempts = <<>> /\ epc = "idle"

\* the process is started: arguments parsed, nothing run yet
Init ==
    /\ max_side \in MaxSideRun
    /\ start_max_side = None
    /\ argv \in ArgLists
    /\ corrupt \in SUBSET {PathA}
    /\ reduced \in {"absent", "dir", "file"}
    /\ out0 \in IF reduced = "dir"
                 THEN {[n \in S |-> Old] : S \in SUBSET {<<"a">>, <<"a", "_1">>}}
                 ELSE {<<>>}
    /\ out = out0
    /\ pc = "start"
    /\ files = <<>> /\ dirs = <<>> /\ fi = 1 /\ di = 1
    /\ entries = {} /\ count = 0 /\ total = 0
    /\ printed = <<>> /\ calls = <<>>
    /\ EncIdle /\ PoolIdle

encRest == <<initial_quality, target_bytes, img, side_steps, si, qi, data,
             attempts, epc>>
fsInputs == <<max_side, argv, corrupt, out0>>

\* lines 184-196: parse, split the paths, report the missing ones; with no
\* path, convert_dir(Path.cwd()) is entered (lines 187-188, 154-158)
MainStart ==
    /\ pc = "start"
    /\ start_max_side' = StartMaxSide(max_side)
    /\ IF argv = <<>>
         THEN /\ pc' = "scan"
              /\ entries' = IterDir(reduced)
              /\ UNCHANGED <<files, dirs, printed>>
         ELSE /\ pc' = "main"
              /\ files' = Filter(argv, reduced, "file")
              /\ dirs' = Filter(argv, reduced, "dir")
              /\ LET missing == Filter(argv, reduced, "missing")
                 IN  printed' = [i \in 1..Len(missing) |->
                                   [msg |-> "Path does not exist",
                                    path |-> missing[i], why |-> "none"]]
              /\ UNCHANGED entries
    /\ UNCHANGED <<fsInputs, reduced, out, fi, di, count, total, calls>>
    /\ UNCHANGED <<encRest, poolVars>>

\* the effect of one convert_heic_file call on the file system, the output
\* and the history (`before` is D/Reduced as the call found it)
Called(r) ==
    /\ reduced' = r.red
    /\ out' = r.out
    /\ printed' = printed \o r.lines
    /\ calls' = Append(calls, [src |-> r.src, result |-> r.result,
                               alloc |-> r.alloc, before |-> r.before])

\* lines 198-199: one pass of `for f in files`
ConvertFileArg ==
    /\ pc = "main"
    /\ fi <= Len(files)
    /\ \E fault \in Faults :
         LET r == ConvertHeicFile(files[fi], Len(calls) + 1, reduced, out,
                                  corrupt, start_max_side, fault)
         IN  /\ Called(r)
             /\ IF r.result = "raised"
                  THEN pc' = "crashed" /\ UNCHANGED <<fi, total>>
                  ELSE /\ pc' = pc
                       /\ fi' = fi + 1
                       /\ total' = total + (IF r.result = "ok" THEN 1 ELSE 0)
    /\ UNCHANGED <<fsInputs, start_max_side, files, dirs, di, entries, count>>
    /\ UNCHANGED <<encRest, poolVars>>

\* lines 201-202, 154-158: `for d in dirs` enters convert_dir
EnterDir ==
    /\ pc = "main"
    /\ fi > Len(files)
    /\ di <= Len(dirs)
    /\ pc' = "scan"
    /\ count' = 0
    /\ entries' = IterDir(reduced)
    /\ UNCHANGED <<fsInputs, start_max_side, reduced, out, files, dirs, fi, di,
                   total, printed, calls>>
    /\ UNCHANGED <<encRest, poolVars>>

\* line 160: the filter of the directory scan
IsInput(entry, red) == IsFile(entry, red) /\ Lower(entry.ext) = "heic"

\* The entries the next pass of the scan may get. iterdir() yields them in
\* arbitrary order; a pass over an entry the filter rejects changes nothing
\* and prints nothing, so those passes are taken first, in one order, and the
\* .heic entries follow in every order.
NextEntries(es, red) ==
    LET skipped == {e \in es : ~IsInput(e, red)}
    IN  IF skipped # {} THEN {CHOOSE e \in skipped : TRUE} ELSE es

\* lines 159-162: one pass of `for entry in dir_path.iterdir()`
DirEntry ==
    /\ pc = "scan"
    /\ \E entry \in NextEntries(entries, reduced) :
         /\ entries' = entries \ {entry}
         /\ IF IsInput(entry, reduced)
              THEN \E fault \in Faults :
                     LET r == ConvertHeicFile(entry, Len(calls) + 1, reduced, out,
                                              corrupt, start_max_side, fault)
                     IN  /\ Called(r)
                         /\ pc' = IF r.result = "raised" THEN "crashed" ELSE pc
                         /\ count' = count + (IF r.result = "ok" THEN 1 ELSE 0)
              ELSE UNCHANGED <<reduced, out, printed, calls, pc, count>>
    /\ UNCHANGED <<fsInputs, start_max_side, files, dirs, fi, di, total>>
    /\ UNCHANGED <<encRest, poolVars>>

\* lines 163-167: convert_dir reports and returns its count; main adds it to
\* total (line 202) or, with no path given, returns (line 189)
LeaveDir ==
    /\ pc = "scan"
    /\ entries = {}
    /\ printed' = Append(printed,
                         [msg |-> IF count = 0 THEN "No .heic files found in"
                                               ELSE "Done. Converted",
                          path |-> PathD, why |-> "none"])
    /\ IF argv = <<>>
         THEN pc' = "done" /\ UNCHANGED <<di, total>>
         ELSE pc' = "main" /\ di' = di + 1 /\ total' = total + count
    /\ UNCHANGED <<fsInputs, start_max_side, reduced, out, files, dirs, fi,
                   entries, count, calls>>
    /\ UNCHANGED <<encRest, poolVars>>

\* lines 204-207: the final tally
Finish ==
    /\ pc = "main"
    /\ fi > Len(files)
    /\ di > Len(dirs)
    /\ pc' = "done"
    /\ printed' = Append(printed,
                         [msg |-> IF total > 0 THEN "All done. Total converted"
                                               ELSE "Nothing converted",
                          path |-> PathD, why |-> "none"])
    /\ UNCHANGED <<fsInputs, start_max_side, reduced, out, files, dirs, fi, di,
                   entries, count, total, calls>>
    /\ UNCHANGED <<encRest, poolVars>>

Next == MainStart \/ ConvertFileArg \/ EnterDir \/ DirEntry \/ LeaveDir \/ Finish

Spec == Init /\ [][Next]_vars

-----------------------------------------------------------------------------
(* The conversion tasks under a worker pool (SpecPool).  A task is one      *)
(* convert_heic_file call; its blocking points split it into three steps:  *)
(* the prologue up to safe_out_path, the decode and encode search, and the *)
(* write.  The pool runs at most poolSize tasks at a time and starts them  *)
(* in submission order.                                                    *)

\* Bound of the pool
PoolN == 2
\* --max-side default
DefaultMaxSide == 3000

\* the input sets: the .heic files of D, each at most once, in any order
WorkQueues ==
    {q \in UNION {[1..n -> HeicFiles] : n \in 0..Cardinality(HeicFiles)} :
        \A i, j \in DOMAIN q : i # j => q[i] # q[j]}

TaskIds == DOMAIN task
Running == {t \in TaskIds : task[t].pc \in {"allocated", "encoded"}}
\* a worker is free and t is the next task submitted
MayStart(t) ==
    /\ task[t].pc = "queued"
    /\ \A u \in TaskIds : u < t => task[u].pc # "queued"
    /\ Cardinality(Running) < poolSize

InitPool ==
    /\ poolSize \in {1, PoolN}
    /\ queue \in WorkQueues
    /\ task = [t \in DOMAIN queue |-> [pc |-> "queued", alloc |-> None, result |-> "none"]]
    /\ max_side = DefaultMaxSide
    /\ start_max_side = StartMaxSide(DefaultMaxSide)
    /\ argv = queue
    /\ corrupt \in SUBSET HeicFiles
    /\ reduced \in {"absent", "dir"}
    /\ out0 \in IF reduced = "dir"
                 THEN {[n \in S |-> Old] : S \in SUBSET {<<"a">>, <<"a", "_1">>}}
                 ELSE {<<>>}
    /\ out = out0
    /\ pc = "pool"
    /\ files = <<>> /\ dirs = <<>> /\ fi = 1 /\ di = 1
    /\ entries = {} /\ count = 0 /\ total = 0
    /\ printed = <<>> /\ calls = <<>>
    /\ EncIdle

poolRest == <<fsInputs, start_max_side, pc, files, dirs, fi, di, entries, count,
              calls, poolSize, queue>>

\* lines 114-119 of a task: input check, mkdir, safe_out_path
TaskAlloc ==
  \E t \in TaskIds :
    /\ MayStart(t)
    /\ IsFile(queue[t], reduced) /\ Lower(queue[t].ext) = "heic"
    /\ reduced' = "dir"
    /\ task' = [task EXCEPT ![t].pc = "allocated",
                            ![t].alloc = Some(SafeOutPath(DOMAIN out, queue[t].stem))]
    /\ UNCHANGED <<out, total, printed>>
    /\ UNCHANGED <<poolRest, encRest>>

\* lines 121-135 and 143-145 of a task: decode and encode search
TaskEncode ==
  \E t \in TaskIds :
    /\ task[t].pc = "allocated"
    /\ IF queue[t] \in corrupt \/ CompressRaises(start_max_side)
         THEN /\ task' = [task EXCEPT ![t].pc = "done", ![t].result = "failed"]
              /\ printed' = Append(printed,
                                   [msg |-> "Failed", path |-> queue[t],
                                    why |-> IF queue[t] \in corrupt
                                              THEN "decode" ELSE "unbound data"])
         ELSE /\ task' = [task EXCEPT ![t].pc = "encoded"]
              /\ UNCHANGED printed
    /\ UNCHANGED <<reduced, out, total>>
    /\ UNCHANGED <<poolRest, encRest>>

\* lines 138-145 of a task: write the bytes to the path picked earlier
TaskWrite ==
  \E t \in TaskIds :
    /\ task[t].pc = "encoded"
    /\ LET w == WriteBytes(out, task[t].alloc[1], t, "none")
       IN  /\ out' = w.out
           /\ task' = [task EXCEPT ![t].pc = "done",
                                   ![t].result = IF w.ok THEN "ok" ELSE "failed"]
           /\ total' = total + (IF w.ok THEN 1 ELSE 0)
           /\ printed' = Append(printed,
                                [msg |-> IF w.ok THEN "Converted" ELSE "Failed",
                                 path |-> queue[t],
                                 why |-> IF w.ok THEN "none" ELSE "write"])
    /\ UNCHANGED reduced
    /\ UNCHANGED <<poolRest, encRest>>

NextPool == TaskAlloc \/ TaskEncode \/ TaskWrite

SpecPool == InitPool /\ [][NextPool]_vars

RECURSIVE SeqRun(_, _, _, _)
\* The same tasks run one after the other, as main's `for f in files` does:
\* the file system and the results after tasks n.. of the queue
SeqRun(n, red, o, res) ==
    IF n > Len(queue) THEN [out |-> o, results |-> res]
    ELSE LET r == ConvertHeicFile(queue[n], n, red, o, corrupt, start_max_side, "none")
         IN  SeqRun(n + 1, r.red, r.out, Append(res, r.result))

\* (D/Reduced holding files is a directory; otherwise the first task makes it)
Sequential == SeqRun(1, IF out0 = <<>> THEN "absent" ELSE "dir", out0, <<>>)

-----------------------------------------------------------------------------
(* Properties of a run of main (checked under Spec) *)

Range1(f) == {f[i] : i \in DOMAIN f}
CallIds == 1..Len(calls)
CallsOf(p) == {k \in CallIds : calls[k].src = p}
Succeeded(p) == \E k \in CallsOf(p) : calls[k].result = "ok"
\* the calls that reached safe_out_path, in order
AllocIds == {k \in CallIds : calls[k].alloc # None}
NextAlloc(k) == {j \in AllocIds : j > k /\ \A m \in AllocIds : m > k => j <= m}
\* the source files the arguments lead to
Discovered ==
    {p \in HeicFiles : argv = <<>> \/ p \in Range1(argv) \/ PathD \in Range1(argv)}
\* the number the run reports last: main's total, or convert_dir's count when
\* no path was given
Reported == IF argv = <<>> THEN count ELSE total

\* C3 (no existing output is overwritten): every file a convert_heic_file
\* call found in D/Reduced is still there with the same content, and every
\* successful call wrote to a path that did not exist when the call picked
\* it: name.jpg, or name_i.jpg with the smallest free i >= 1.
C3_NoOverwrite ==
    \A k \in CallIds :
        /\ \A n \in DOMAIN calls[k].before :
              n \in DOMAIN out /\ out[n] = calls[k].before[n]
        /\ calls[k].result = "ok" =>
              /\ calls[k].alloc # None
              /\ calls[k].alloc[1] \notin DOMAIN calls[k].before
              /\ out[calls[k].alloc[1]] = Jpeg(k)
              /\ \E i \in 0..Cardinality(DOMAIN calls[k].before) :
                    /\ calls[k].alloc[1] = JpgName(calls[k].src.stem, i)
                    /\ \A j \in 0..(i - 1) :
                          JpgName(calls[k].src.stem, j) \in DOMAIN calls[k].before

\* C3 witness: a.heic was converted while Reduced/a.jpg and Reduced/a_1.jpg
\* existed, and went to Reduced/a_2.jpg.
C3_Witness ==
    \E k \in CallIds :
        /\ calls[k].result = "ok"
        /\ calls[k].src = PathA
        /\ {<<"a">>, <<"a", "_1">>} \subseteq DOMAIN calls[k].before
        /\ calls[k].alloc = Some(<<"a", "_2">>)
        /\ out[<<"a">>] = Old

\* C4 as stated (namer uniqueness): two calls of safe_out_path in sequence for
\* the same directory and base name never return the same path, and a
\* returned path never names a file existing at the time of the call.
C4_NamerUniqueness ==
    \A k \in AllocIds :
        /\ calls[k].alloc[1] \notin DOMAIN calls[k].before
        /\ \A j \in NextAlloc(k) :
              calls[j].src.stem = calls[k].src.stem => calls[j].alloc # calls[k].alloc

\* C4 as amended: a returned path never names a file existing at the time of
\* the call, and two calls in sequence for the same directory and base name
\* return different paths when the first call's path was written in between.
C4_NamerUniquenessAfterWrite ==
    \A k \in AllocIds :
        /\ calls[k].alloc[1] \notin DOMAIN calls[k].before
        /\ \A j \in NextAlloc(k) :
              (calls[j].src.stem = calls[k].src.stem /\ calls[k].result = "ok")
                  => calls[j].alloc # calls[k].alloc

\* C4 witness: two calls in sequence for base name "a", the first written to
\* Reduced/a_1.jpg and the second given Reduced/a_2.jpg.
C4_Witness ==
    \E k \in AllocIds : \E j \in NextAlloc(k) :
        /\ calls[k].src.stem = <<"a">> /\ calls[j].src.stem = <<"a">>
        /\ calls[k].result = "ok"
        /\ calls[k].alloc = Some(<<"a", "_1">>)
        /\ calls[j].alloc = Some(<<"a", "_2">>)

\* C5 (idempotent discovery): when main ends, every distinct source file the
\* arguments lead to has been converted exactly once: one call, at most one
\* output file.
C5_IdempotentDiscovery ==
    pc = "done" =>
        \A p \in Discovered :
            /\ Cardinality(CallsOf(p)) = 1
            /\ Cardinality({n \in DOMAIN out :
                              \E k \in CallsOf(p) : out[n] = Jpeg(k)}) <= 1

\* C6 (failure containment): no convert_heic_file call lets an exception out;
\* each returns True or False, so the run goes on to the remaining files.
C6_FailureContainment ==
    /\ \A k \in CallIds : calls[k].result \in {"ok", "failed"}
    /\ pc # "crashed"

\* C8 (lifecycle and tally): the run ends normally, every discovered file was
\* attempted exactly once and ended succeeded or failed, and the number
\* reported last is the number of files that succeeded.
C8_LifecycleTally ==
    pc \in {"done", "crashed"} =>
        /\ pc = "done"
        /\ \A p \in Discovered :
              /\ Cardinality(CallsOf(p)) = 1
              /\ \A k \in CallsOf(p) : calls[k].result \in {"ok", "failed"}
        /\ Reported = Cardinality({p \in Discovered : Succeeded(p)})

\* C9 (explicit failure reporting): when main ends, every path given directly
\* that is no directory and was not converted is named in a printed line with
\* its cause: "Path does not exist" for a missing path, a line of its own for
\* an existing file that is no .heic file, "Failed" with the reason for a
\* conversion that failed.
C9_ExplicitFailureReporting ==
    pc = "done" =>
        \A i \in DOMAIN argv :
            LET p == argv[i]
            IN  (~IsDir(p, reduced) /\ ~Succeeded(p)) =>
                    \E l \in DOMAIN printed :
                        /\ printed[l].path = p
                        /\ ~Exists(p, reduced) => printed[l].msg = "Path does not exist"
                        /\ (p \in HeicFiles) =>
                              printed[l].msg = "Failed" /\ printed[l].why # "none"

-----------------------------------------------------------------------------
(* Properties of the tasks under a worker pool (checked under SpecPool) *)

PoolDone == pc = "pool" /\ \A t \in TaskIds : task[t].pc = "done"
\* the sources reported converted
PoolOk == {queue[t] : t \in {u \in TaskIds : task[u].result = "ok"}}
SeqOk == {queue[t] : t \in {u \in DOMAIN queue : Sequential.results[u] = "ok"}}
\* the sources whose JPEG is in D/Reduced
OnDisk(o) == {queue[t] : t \in {u \in DOMAIN queue : \E n \in DOMAIN o : o[n] = Jpeg(u)}}

-----------------------------------------------------------------------------
(* Properties of compress_to_target (checked under SpecEnc) *)

\* the call has ended, by a return or by an exception
EncEnded == epc \in {"returned", "raised"}
\* the encode calls made before the latest one
Earlier == 1..(Len(attempts) - 1)
\* the ladder's lowest cap with the lowest quality
LowestCap == side_steps[Len(side_steps)]
LowestFits == side_steps # <<>> /\ img[<<LowestCap, MinQuality>>] <= target_bytes
NoAttemptFits == \A k \in 1..Len(attempts) : attempts[k].len > target_bytes

\* C1 (budget satisfaction): whenever the encoding at the ladder's lowest
\* resolution cap and lowest quality is within the budget, the call ends by
\* returning a byte stream no longer than the budget.
C1_BudgetSatisfaction ==
    (EncEnded /\ LowestFits) =>
        /\ epc = "returned"
        /\ data # None
        /\ data[1] <= target_bytes

\* C1 witness: a call that went over budget at least once, reached a pair
\* that fits because the lowest pair fits, and returned it.
C1_Witness ==
    /\ epc = "returned" /\ LowestFits
    /\ Len(attempts) = Len(side_steps) * Len(quality_steps)
    /\ Len(attempts) > 1
    /\ data[1] <= target_bytes

\* C2 (best-effort fallback): whatever start_max_side main passes, a call in
\* which no attempted encoding meets the budget still ends by returning an
\* encoding, and it is the one of the last attempt, made at the smallest cap
\* and the lowest quality; the call never ends without a result.
C2_BestEffortFallback ==
    (EncEnded /\ NoAttemptFits) =>
        /\ epc = "returned"
        /\ attempts # <<>>
        /\ data = Some(attempts[Len(attempts)].len)
        /\ attempts[Len(attempts)].side = LowestCap
        /\ attempts[Len(attempts)].q = MinQuality

\* C10 (first-fit order): the encode calls are made cap by cap from the
\* start cap downwards and, within a cap, quality by quality from
\* initial_quality down to min_quality in steps of 5; every call before the
\* latest one was over budget (so none is made after one that fits), and a
\* call that returns after a fitting attempt returns that attempt's bytes.
C10_FirstFitOrder ==
    /\ attempts # <<>> =>
          /\ attempts[1].q = initial_quality
          /\ attempts[1].side = IF Truthy(start_max_side) THEN start_max_side ELSE None
    /\ \A k \in Earlier :
          /\ attempts[k].len > target_bytes
          /\ \/ /\ attempts[k + 1].side = attempts[k].side
                /\ attempts[k + 1].q = attempts[k].q - 5
                /\ attempts[k + 1].q >= MinQuality
             \/ /\ attempts[k].q = MinQuality
                /\ attempts[k + 1].q = initial_quality
                /\ attempts[k].side # None /\ attempts[k + 1].side # None
                /\ attempts[k + 1].side[1] < attempts[k].side[1]
                /\ attempts[k + 1].side[1] >= MinMaxSide
    /\ epc = "returned" => data = Some(attempts[Len(attempts)].len)
    /\ (epc = "returned" /\ ~NoAttemptFits) =>
          attempts[Len(attempts)].len <= target_bytes

\* C10 witness: a return of the first fitting pair, found on the second cap
\* after every pair of the first cap was over budget.
C10_Witness ==
    /\ epc = "returned"
    /\ Len(attempts) > Len(quality_steps)
    /\ Len(attempts) < Len(side_steps) * Len(quality_steps)
    /\ attempts[Len(attempts)].len <= target_bytes

====
